---- MODULE Spec2Model ----
(***************************************************************************)
(* resolve.py: an iterative DNS resolver with a process-wide cache.        *)
(*                                                                         *)
(* The model keeps the cache, the call stack of lookup (lookup calls       *)
(* itself for glueless delegations) and the position of collect_results.   *)
(* One nameserver attempt is one step; what the nameserver answers is      *)
(* chosen from WireResponses, and any attempt may fail in transport.       *)
(***************************************************************************)
EXTENDS Integers, Sequences, FiniteSets, TLC

\* Number of external events (calls made by the user, replies received from
\* nameservers) in one behaviour.  Attempts that fail in transport are free.
MaxEvents == 3

\* Number of alias steps the chain walk of collect_results is followed for.
MaxChain == 3

\* Number of calls made by the user in one behaviour in front of well-formed
\* data, where the replies are not counted.
MaxCalls == 1

----------------------------------------------------------------------------
(* Names are label tuples ending with the empty root label, as in          *)
(* dns.name.Name.labels.                                                    *)

RootName == <<"">>
ZoneZ == <<"z", "">>
HostA == <<"a", "z", "">>
HostB == <<"b", "z", "">>
HostN == <<"n", "z", "">>

HostNames == {HostA, HostB, HostN}
Zones == {RootName, ZoneZ}

\* the arguments the callers of lookup pass
LookupCalls ==
    {<<HostA, "A">>, <<HostB, "A">>, <<HostN, "A">>, <<HostA, "CNAME">>,
     <<ZoneZ, "NS">>}

\* the alias a nameserver may report for a name: a -> b -> n -> b (b and n are
\* aliases of each other), the root for the zone z. (an alias target that is
\* itself a zone referrals name), and a for any other name
AliasOf(name) ==
    CASE name = HostA -> HostB
      [] name = HostB -> HostN
      [] name = HostN -> HostB
      [] name = ZoneZ -> RootName
      [] OTHER -> HostA

ROOT_SERVERS == <<"r1", "r2">>

GlueAddress == "g1"

RECURSIVE JoinLabels(_)
JoinLabels(labels) ==
    IF Len(labels) = 1 THEN labels[1]
    ELSE labels[1] \o "." \o JoinLabels(Tail(labels))

\* str(name) of an absolute name: "a.z." and "." for the root
ToText(name) == IF name = <<"">> THEN "." ELSE JoinLabels(name)

\* cache_key = (str(target_name), qtype)
CacheKey(name, qtype) == <<ToText(name), qtype>>

----------------------------------------------------------------------------
(* Messages.  An rdata carries the fields of its type; the others are left *)
(* at their blank values.                                                   *)

NoName == <<>>

ARdata(address) ==
    [rdtype |-> "A", address |-> address, target |-> NoName,
     preference |-> 0, exchange |-> NoName]
AAAARdata(address) ==
    [rdtype |-> "AAAA", address |-> address, target |-> NoName,
     preference |-> 0, exchange |-> NoName]
NSRdata(target) ==
    [rdtype |-> "NS", address |-> "", target |-> target,
     preference |-> 0, exchange |-> NoName]
CNAMERdata(target) ==
    [rdtype |-> "CNAME", address |-> "", target |-> target,
     preference |-> 0, exchange |-> NoName]
MXRdata(preference, exchange) ==
    [rdtype |-> "MX", address |-> "", target |-> NoName,
     preference |-> preference, exchange |-> exchange]
SOARdata ==
    [rdtype |-> "SOA", address |-> "", target |-> NoName,
     preference |-> 0, exchange |-> NoName]

\* an RRset: owner name, type and its rdatas (all of the RRset's type)
RRset(name, rdtype, items) == [name |-> name, rdtype |-> rdtype, items |-> items]

Message(qname, qtype, answer, authority, additional) ==
    [question |-> [name |-> qname, rdtype |-> qtype],
     answer |-> answer, authority |-> authority, additional |-> additional]

\* dns.message.make_response(outbound_query): the question, no records
make_response(qname, qtype) == Message(qname, qtype, <<>>, <<>>, <<>>)

RECURSIVE Flatten(_)
Flatten(seqs) == IF seqs = <<>> THEN <<>> ELSE Head(seqs) \o Flatten(Tail(seqs))

\* the RRsets of a section that have the given type, in section order
OfType(section, rdtype) == SelectSeq(section, LAMBDA rr : rr.rdtype = rdtype)

\* for rr in section: if rr.rdtype == NS: for rdata in rr: append(rdata.target)
NsTargets(section) ==
    LET rrs == OfType(section, "NS")
    IN Flatten([k \in 1..Len(rrs) |->
                  [m \in 1..Len(rrs[k].items) |-> rrs[k].items[m].target]])

\* for rr in section: if rr.rdtype == A: for rdata in rr: append(rdata.address)
AAddresses(section) ==
    LET rrs == OfType(section, "A")
    IN Flatten([k \in 1..Len(rrs) |->
                  [m \in 1..Len(rrs[k].items) |-> rrs[k].items[m].address]])

----------------------------------------------------------------------------
(* What a nameserver may send back to the query (qname, qtype).  The reply *)
(* carries the question of the query: dns.query.udp rejects any other.     *)

AnswerRdatas(qname, qtype) ==
    CASE qtype = "A"     -> {ARdata(GlueAddress)}
      [] qtype = "AAAA"  -> {AAAARdata("v6")}
      [] qtype = "MX"    -> {MXRdata(10, HostN)}
      [] qtype = "NS"    -> {NSRdata(HostN)}
      [] qtype = "CNAME" -> {CNAMERdata(AliasOf(qname))}

\* an answer of the type asked for
DirectAnswers(qname, qtype) ==
    {Message(qname, qtype, <<RRset(qname, qtype, <<rd>>)>>, <<>>, <<>>) :
        rd \in AnswerRdatas(qname, qtype)}

\* an answer that says qname is an alias
AliasAnswers(qname, qtype) ==
    IF qtype = "CNAME" THEN {}
    ELSE {Message(qname, qtype, <<RRset(qname, "CNAME", <<rd>>)>>, <<>>, <<>>) :
            rd \in AnswerRdatas(qname, "CNAME")}

\* a non-empty answer with neither a CNAME nor a record of the type asked for
OtherAnswers(qname, qtype) ==
    IF qtype = "AAAA"
    THEN {Message(qname, qtype, <<RRset(qname, "A", <<ARdata(GlueAddress)>>)>>, <<>>, <<>>)}
    ELSE {Message(qname, qtype, <<RRset(qname, "AAAA", <<AAAARdata("v6")>>)>>, <<>>, <<>>)}

\* the delegations a nameserver may report: zone, NS targets, additional section
Delegations ==
    {<<ZoneZ, <<NSRdata(HostN)>>, <<>> >>,
     <<ZoneZ, <<NSRdata(HostN)>>, <<RRset(HostN, "A", <<ARdata(GlueAddress)>>)>> >>,
     <<ZoneZ, <<NSRdata(HostN)>>, <<RRset(HostA, "A", <<ARdata("g2")>>)>> >>,
     <<ZoneZ, <<NSRdata(HostN)>>, <<RRset(HostN, "AAAA", <<AAAARdata("v6")>>)>> >>,
     <<ZoneZ, <<NSRdata(HostB), NSRdata(HostN)>>, <<>> >>,
     <<RootName, <<NSRdata(HostB)>>, <<RRset(HostB, "A", <<ARdata("g2")>>)>> >>}

\* no answer, NS records in the authority section
Referrals(qname, qtype) ==
    {Message(qname, qtype, <<>>, <<RRset(d[1], "NS", d[2])>>, d[3]) : d \in Delegations}

\* no answer, an authority section without NS records; and the empty message
NoDataReplies(qname, qtype) ==
    {Message(qname, qtype, <<>>, <<RRset(ZoneZ, "SOA", <<SOARdata>>)>>, <<>>),
     make_response(qname, qtype)}

WireResponses(qname, qtype) ==
    DirectAnswers(qname, qtype) \cup AliasAnswers(qname, qtype)
        \cup OtherAnswers(qname, qtype) \cup Referrals(qname, qtype)
        \cup NoDataReplies(qname, qtype)

----------------------------------------------------------------------------
VARIABLES
    CACHE,          \* the module-level dict: cache key -> message
    stack,          \* the active calls of lookup, the innermost last
    ret,            \* <<message>> returned by the call that ended last, or <<>>
    pc,             \* where the caller is: "idle", "lookup", "CNAME", "A", "AAAA", "MX"
    current_name,   \* collect_results: the name the chain walk is at
    cnames,         \* collect_results: the alias steps so far
    arecords,       \* collect_results: the A list
    aaaarecords,    \* collect_results: the AAAA list
    full_response,  \* <<dict>> returned by the last collect_results, or <<>>
    collect_name,   \* collect_results: the name it was called with
    events,         \* calls made and replies received so far
    lastq,          \* the query sent last, with the reply to it (<<>>: none)
    returned        \* cache key -> the message the first lookup of it returned

vars == <<CACHE, stack, ret, pc, current_name, cnames, arecords, aaaarecords,
          full_response, collect_name, events, lastq, returned>>

\* variant: the assignment replaces the dict
PutReplacesAll(cache, key, value) == [k \in {key} |-> value]

\* CACHE[key] = value
Put(cache, key, value) ==
    [k \in DOMAIN cache \cup {key} |-> IF k = key THEN value ELSE cache[k]]

\* if key not in CACHE: CACHE[key] = value
PutIfAbsent(cache, key, value) ==
    IF key \in DOMAIN cache THEN cache ELSE Put(cache, key, value)

----------------------------------------------------------------------------
(* The delegation locator at the head of lookup.                           *)

\* the cached addresses of the NS targets, in the order of the targets
RECURSIVE CachedAddresses(_, _)
CachedAddresses(cache, ns_names) ==
    IF Len(ns_names) = 0 THEN <<>>
    ELSE LET ns_ip_key == CacheKey(Head(ns_names), "A")
             here == IF ns_ip_key \in DOMAIN cache
                     THEN AAddresses(cache[ns_ip_key].answer)
                     ELSE <<>>
         IN here \o CachedAddresses(cache, Tail(ns_names))

\* variant: the ancestors are tried from the root towards the name
RECURSIVE ClosestNameserversFromRoot(_, _, _)
ClosestNameserversFromRoot(cache, labels, i) ==
    IF i > Len(labels) THEN <<>>
    ELSE LET parent == SubSeq(labels, Len(labels) + 1 - i, Len(labels))
             ns_cache_key == CacheKey(parent, "NS")
             nameservers ==
                 IF ns_cache_key \in DOMAIN cache
                 THEN CachedAddresses(cache, NsTargets(cache[ns_cache_key].answer))
                 ELSE <<>>
         IN IF Len(nameservers) > 0 THEN nameservers
            ELSE ClosestNameserversFromRoot(cache, labels, i + 1)

\* for i in range(len(labels)): from the suffix labels[i:] towards the root,
\* the first ancestor whose cached NS set has a cached address
RECURSIVE ClosestNameservers(_, _, _)
ClosestNameservers(cache, labels, i) ==
    IF i > Len(labels) THEN <<>>
    ELSE LET parent == SubSeq(labels, i, Len(labels))
             ns_cache_key == CacheKey(parent, "NS")
             nameservers ==
                 IF ns_cache_key \in DOMAIN cache
                 THEN CachedAddresses(cache, NsTargets(cache[ns_cache_key].answer))
                 ELSE <<>>
         IN IF Len(nameservers) > 0 THEN nameservers
            ELSE ClosestNameservers(cache, labels, i + 1)

\* variant: the fallback to the root servers is missing
InitialNameserversNoFallback(cache, target_name) ==
    ClosestNameservers(cache, target_name, 1)

\* variant: every lookup starts at the root servers
InitialNameserversRootOnly(cache, target_name) == ROOT_SERVERS

\* if not nameservers: nameservers = list(ROOT_SERVERS)
InitialNameservers(cache, target_name) ==
    LET nameservers == ClosestNameservers(cache, target_name, 1)
    IN IF Len(nameservers) = 0 THEN ROOT_SERVERS ELSE nameservers

----------------------------------------------------------------------------
(* lookup.  A frame is one active call: its arguments, the name it is      *)
(* asking for now, its nameserver list and the position i of the for loop; *)
(* while it resolves the NS targets of a glueless referral, ns_names holds *)
(* them and j > 0 is the one whose address it is waiting for.  Two fields  *)
(* are bookkeeping: failed counts the transport failures of the cycle, and *)
(* under says whether, when the call began, a lookup of another name under *)
(* a zone above target_name had already returned an answer.                *)

AllNames == HostNames \cup Zones

\* name lies below zone
IsUnder(name, zone) ==
    /\ Len(zone) < Len(name)
    /\ SubSeq(name, Len(name) - Len(zone) + 1, Len(name)) = zone

\* the zones whose NS set is cached and under which a lookup of a name other
\* than target_name has returned an answer
ResolvedZones(cache, target_name) ==
    {zone \in AllNames :
        /\ CacheKey(zone, "NS") \in DOMAIN cache
        /\ IsUnder(target_name, zone)
        /\ \E other \in AllNames \ {target_name}, key \in DOMAIN returned :
              /\ IsUnder(other, zone)
              /\ key[1] = ToText(other)
              /\ Len(OfType(returned[key].answer, key[2])) > 0}

Frame(cache, target_name, qtype) ==
    [target_name |-> target_name, qtype |-> qtype,
     current_target |-> target_name,
     nameservers |-> InitialNameservers(cache, target_name),
     i |-> 1, ns_names |-> <<>>, j |-> 0,
     failed |-> 0,
     under |-> ResolvedZones(cache, target_name) # {}]

Top(stk) == stk[Len(stk)]
Pop(stk) == SubSeq(stk, 1, Len(stk) - 1)
SetTop(stk, f) == [stk EXCEPT ![Len(stk)] = f]

\* the cache, the stack and the returned message after a step; done is
\* <<the call that returned in the step>> or <<>>
Outcome(cache, stk, r, done) == [CACHE |-> cache, stack |-> stk, ret |-> r, done |-> done]

CallOf(target_name, qtype) == [name |-> target_name, qtype |-> qtype]

\* a call lookup(target_name, qtype): served from the cache, or a new frame
Call(cache, stk, target_name, qtype) ==
    LET cache_key == CacheKey(target_name, qtype)
    IN IF cache_key \in DOMAIN cache
       THEN Outcome(cache, stk, <<cache[cache_key]>>, <<CallOf(target_name, qtype)>>)
       ELSE Outcome(cache, Append(stk, Frame(cache, target_name, qtype)), <<>>, <<>>)

\* variant: the response is stored under the key of the name asked for last too
ReturnStoresTarget(cache, stk, response) ==
    LET f == Top(stk)
    IN Outcome(Put(Put(cache, CacheKey(f.current_target, f.qtype), response),
                   CacheKey(f.target_name, f.qtype), response),
               Pop(stk), <<response>>, <<CallOf(f.target_name, f.qtype)>>)

\* CACHE[cache_key] = response; return response
Return(cache, stk, response) ==
    LET f == Top(stk)
    IN Outcome(Put(cache, CacheKey(f.target_name, f.qtype), response),
               Pop(stk), <<response>>, <<CallOf(f.target_name, f.qtype)>>)

\* variant: the empty response of an exhausted cycle is returned but not stored
NextNameserverNoStore(cache, stk) ==
    LET f == Top(stk)
    IN IF f.i < Len(f.nameservers)
       THEN Outcome(cache,
                    SetTop(stk, [f EXCEPT !.i = f.i + 1, !.ns_names = <<>>, !.j = 0]),
                    <<>>, <<>>)
       ELSE Outcome(cache, Pop(stk), <<make_response(f.current_target, f.qtype)>>,
                    <<CallOf(f.target_name, f.qtype)>>)

\* variant: a nameserver that failed is tried again
NextNameserverRetries(cache, stk) ==
    LET f == Top(stk)
    IN IF f.i < Len(f.nameservers)
       THEN Outcome(cache, SetTop(stk, [f EXCEPT !.ns_names = <<>>, !.j = 0]), <<>>, <<>>)
       ELSE Return(cache, stk, make_response(f.current_target, f.qtype))

\* the for loop goes on to the next nameserver; past the last one found_next
\* is still False and the call ends with the empty response
NextNameserver(cache, stk) ==
    LET f == Top(stk)
    IN IF f.i < Len(f.nameservers)
       THEN Outcome(cache,
                    SetTop(stk, [f EXCEPT !.i = f.i + 1, !.ns_names = <<>>, !.j = 0]),
                    <<>>, <<>>)
       ELSE Return(cache, stk, make_response(f.current_target, f.qtype))

\* found_next = True; break: the while loop starts the for loop again
NextCycle(cache, stk, current_target, nameservers) ==
    LET f == Top(stk)
    IN Outcome(cache,
               SetTop(stk, [f EXCEPT !.current_target = current_target,
                                     !.nameservers = nameservers,
                                     !.i = 1, !.ns_names = <<>>, !.j = 0,
                                     !.failed = 0]),
               <<>>, <<>>)

\* the glue loop: every A RRset of the additional section is cached under its
\* owner name unless the key is present
RECURSIVE CacheGlue(_, _, _, _)
CacheGlue(cache, additional, qname, qtype) ==
    IF Len(additional) = 0 THEN cache
    ELSE LET rr == Head(additional)
             ns_ip_key == CacheKey(rr.name, "A")
             ns_ip_response == [make_response(qname, qtype) EXCEPT !.answer = <<rr>>]
             cache1 == IF rr.rdtype = "A"
                       THEN PutIfAbsent(cache, ns_ip_key, ns_ip_response)
                       ELSE cache
         IN CacheGlue(cache1, Tail(additional), qname, qtype)

\* variant: the addresses are taken from the AAAA RRsets
GlueAddressesOfAAAA(additional) ==
    LET rrs == OfType(additional, "AAAA")
    IN [k \in 1..Len(rrs) |-> rrs[k].items[1].address]

\* new_nameservers.append(additional[0].address) for every A RRset
GlueAddresses(additional) ==
    LET rrs == OfType(additional, "A")
    IN [k \in 1..Len(rrs) |-> rrs[k].items[1].address]

\* ns_response = lookup(ns_names[j], A) for the frame on top
ResolveNsName(cache, stk, ns_names, j) ==
    LET f == Top(stk)
        waiting == SetTop(stk, [f EXCEPT !.ns_names = ns_names, !.j = j])
    IN Call(cache, waiting, ns_names[j], "A")

\* variant: an alias is followed whatever the type asked for
OnAnswerAlwaysFollows(cache, stk, response) ==
    LET aliases == OfType(response.answer, "CNAME")
    IN IF Len(aliases) > 0
       THEN NextCycle(cache, stk, aliases[1].items[1].target, ROOT_SERVERS)
       ELSE Return(cache, stk, response)

\* variant: the alias is followed with the nameservers the call has
OnAnswerKeepsNameservers(cache, stk, response) ==
    LET f == Top(stk)
        aliases == OfType(response.answer, "CNAME")
    IN IF f.qtype = "CNAME"
       THEN IF Len(aliases) > 0
            THEN Return(cache, stk, response)
            ELSE Return(cache, stk, make_response(f.current_target, f.qtype))
       ELSE IF Len(aliases) > 0
            THEN NextCycle(cache, stk, aliases[1].items[1].target, f.nameservers)
            ELSE Return(cache, stk, response)

\* variant: the alias is followed without moving to its target
OnAnswerSameTarget(cache, stk, response) ==
    LET f == Top(stk)
        aliases == OfType(response.answer, "CNAME")
    IN IF f.qtype = "CNAME"
       THEN IF Len(aliases) > 0
            THEN Return(cache, stk, response)
            ELSE Return(cache, stk, make_response(f.current_target, f.qtype))
       ELSE IF Len(aliases) > 0
            THEN NextCycle(cache, stk, f.current_target, ROOT_SERVERS)
            ELSE Return(cache, stk, response)

\* the answer section is not empty
OnAnswer(cache, stk, response) ==
    LET f == Top(stk)
        aliases == OfType(response.answer, "CNAME")
    IN IF f.qtype = "CNAME"
       THEN IF Len(aliases) > 0
            THEN Return(cache, stk, response)
            ELSE Return(cache, stk, make_response(f.current_target, f.qtype))
       ELSE IF Len(aliases) > 0
            THEN NextCycle(cache, stk, aliases[1].items[1].target, ROOT_SERVERS)
            ELSE Return(cache, stk, response)

\* variant: a referral with glue to a zone whose NS set is cached ends the call
OnAuthorityDetectsLoop(cache, stk, response) ==
    LET f == Top(stk)
        ns_names == NsTargets(response.authority)
        zone_cache_key == CacheKey(response.authority[1].name, "NS")
        ns_response == [make_response(f.current_target, f.qtype)
                           EXCEPT !.answer = response.authority]
        cache1 == PutIfAbsent(cache, zone_cache_key, ns_response)
        cache2 == CacheGlue(cache1, response.additional, f.current_target, f.qtype)
        new_nameservers == GlueAddresses(response.additional)
    IN IF Len(ns_names) > 0
       THEN IF Len(new_nameservers) > 0
            THEN IF zone_cache_key \in DOMAIN cache
                 THEN Return(cache2, stk, make_response(f.current_target, f.qtype))
                 ELSE NextCycle(cache2, stk, f.current_target, new_nameservers)
            ELSE ResolveNsName(cache2, stk, ns_names, 1)
       ELSE Return(cache, stk, response)

\* the answer section is empty and the authority section is not
OnAuthority(cache, stk, response) ==
    LET f == Top(stk)
        ns_names == NsTargets(response.authority)
        zone_cache_key == CacheKey(response.authority[1].name, "NS")
        ns_response == [make_response(f.current_target, f.qtype)
                           EXCEPT !.answer = response.authority]
        cache1 == PutIfAbsent(cache, zone_cache_key, ns_response)
        cache2 == CacheGlue(cache1, response.additional, f.current_target, f.qtype)
        new_nameservers == GlueAddresses(response.additional)
    IN IF Len(ns_names) > 0
       THEN IF Len(new_nameservers) > 0
            THEN NextCycle(cache2, stk, f.current_target, new_nameservers)
            ELSE ResolveNsName(cache2, stk, ns_names, 1)
       ELSE Return(cache, stk, response)

\* what the frame on top does with a reply
OnResponse(cache, stk, response) ==
    IF Len(response.answer) > 0 THEN OnAnswer(cache, stk, response)
    ELSE IF Len(response.authority) > 0 THEN OnAuthority(cache, stk, response)
    ELSE NextNameserver(cache, stk)

\* variant: the NS targets after the first one with an address are looked up too
OnNsAddressAllTargets(cache, stk, ns_response) ==
    LET f == Top(stk)
        new_nameservers == AAddresses(ns_response.answer)
    IN IF f.j < Len(f.ns_names)
       THEN ResolveNsName(cache, stk, f.ns_names, f.j + 1)
       ELSE IF Len(new_nameservers) > 0
            THEN NextCycle(cache, stk, f.current_target, new_nameservers)
            ELSE NextNameserver(cache, stk)

\* what the frame on top does with the message its nested lookup returned
OnNsAddress(cache, stk, ns_response) ==
    LET f == Top(stk)
        new_nameservers == AAddresses(ns_response.answer)
    IN IF Len(new_nameservers) > 0
       THEN NextCycle(cache, stk, f.current_target, new_nameservers)
       ELSE IF f.j < Len(f.ns_names)
            THEN ResolveNsName(cache, stk, f.ns_names, f.j + 1)
            ELSE NextNameserver(cache, stk)

----------------------------------------------------------------------------
(* collect_results                                                         *)

RECURSIVE Rdatas(_)
\* for answers in response.answer: for answer in answers
Rdatas(section) ==
    IF Len(section) = 0 THEN <<>> ELSE Head(section).items \o Rdatas(Tail(section))

\* the CNAME rdatas of the answer section, the first one is the one followed
AliasRdatas(response) ==
    SelectSeq(Rdatas(response.answer), LAMBDA rd : rd.rdtype = "CNAME")

\* cnames.append({"name": answer.target, "alias": current_name})
AliasStepSwapped(alias, rdata) == [name |-> alias, alias |-> rdata.target]

AliasStep(alias, rdata) == [name |-> rdata.target, alias |-> alias]

\* variant: the rdatas are not filtered by type
RECURSIVE RecordsUnfiltered(_, _)
RecordsUnfiltered(section, rdtype) ==
    IF Len(section) = 0 THEN <<>>
    ELSE LET answers == Head(section)
             wanted == answers.items
             here == [k \in 1..Len(wanted) |->
                        IF rdtype = "MX"
                        THEN [name |-> answers.name, address |-> "",
                              preference |-> wanted[k].preference,
                              exchange |-> IF wanted[k].rdtype = "MX"
                                           THEN ToText(wanted[k].exchange)
                                           ELSE ""]
                        ELSE [name |-> answers.name, address |-> wanted[k].address,
                              preference |-> 0, exchange |-> ""]]
         IN here \o RecordsUnfiltered(Tail(section), rdtype)

\* the presentation records of one type: the owner name and the rdata's fields
RECURSIVE Records(_, _)
Records(section, rdtype) ==
    IF Len(section) = 0 THEN <<>>
    ELSE LET answers == Head(section)
             wanted == SelectSeq(answers.items, LAMBDA rd : rd.rdtype = rdtype)
             here == [k \in 1..Len(wanted) |->
                        IF rdtype = "MX"
                        THEN [name |-> answers.name, address |-> "",
                              preference |-> wanted[k].preference,
                              exchange |-> ToText(wanted[k].exchange)]
                        ELSE [name |-> answers.name, address |-> wanted[k].address,
                              preference |-> 0, exchange |-> ""]]
         IN here \o Records(Tail(section), rdtype)

----------------------------------------------------------------------------
Init ==
    /\ CACHE = << >>
    /\ stack = << >>
    /\ ret = << >>
    /\ pc = "idle"
    /\ current_name = NoName
    /\ cnames = << >>
    /\ arecords = << >>
    /\ aaaarecords = << >>
    /\ full_response = << >>
    /\ collect_name = NoName
    /\ events = 0
    /\ lastq = << >>
    /\ returned = << >>

Becomes(outcome) ==
    \E o \in {outcome} :
        /\ CACHE' = o.CACHE
        /\ stack' = o.stack
        /\ ret' = o.ret
        /\ returned' = IF Len(o.done) > 0
                       THEN PutIfAbsent(returned,
                                        CacheKey(o.done[1].name, o.done[1].qtype),
                                        o.ret[1])
                       ELSE returned

\* a caller other than collect_results calls lookup(target_name, qtype)
Lookup(target_name, qtype) ==
    /\ pc = "idle"
    /\ events < MaxEvents
    /\ events' = events + 1
    /\ Becomes(Call(CACHE, stack, target_name, qtype))
    /\ pc' = "lookup"
    /\ UNCHANGED <<current_name, cnames, arecords, aaaarecords, full_response,
                   collect_name, lastq>>

\* that caller has the message
LookupReturns ==
    /\ pc = "lookup"
    /\ stack = << >>
    /\ ret # << >>
    /\ pc' = "idle"
    /\ ret' = << >>
    /\ UNCHANGED <<CACHE, stack, current_name, cnames, arecords, aaaarecords,
                   full_response, collect_name, events, lastq, returned>>

\* one nameserver attempt of the innermost call of lookup
Query(f, reply) ==
    [ns |-> f.nameservers[f.i], name |-> f.current_target, rdtype |-> f.qtype,
     target_name |-> f.target_name, under |-> f.under, reply |-> reply]

\* dns.query.udp raises Timeout or OSError (or the reply cannot be used)
QueryFails ==
    /\ stack # << >>
    /\ ret = << >>
    /\ Top(stack).j = 0
    /\ lastq' = <<Query(Top(stack), << >>)>>
    /\ Becomes(NextNameserver(CACHE,
                   SetTop(stack, [Top(stack) EXCEPT !.failed = Top(stack).failed + 1])))
    /\ UNCHANGED <<pc, current_name, cnames, arecords, aaaarecords, full_response,
                   collect_name, events>>

\* dns.query.udp returns a reply
QueryAnswered ==
    /\ stack # << >>
    /\ ret = << >>
    /\ Top(stack).j = 0
    /\ events < MaxEvents
    /\ events' = events + 1
    /\ \E response \in WireResponses(Top(stack).current_target, Top(stack).qtype) :
           /\ lastq' = <<Query(Top(stack), <<response>>)>>
           /\ Becomes(OnResponse(CACHE, stack, response))
    /\ UNCHANGED <<pc, current_name, cnames, arecords, aaaarecords, full_response,
                   collect_name>>

\* the nested lookup(ns_name, A) of a glueless referral has returned
NsAddressReturns ==
    /\ stack # << >>
    /\ ret # << >>
    /\ Top(stack).j > 0
    /\ Becomes(OnNsAddress(CACHE, stack, ret[1]))
    /\ UNCHANGED <<pc, current_name, cnames, arecords, aaaarecords, full_response,
                   collect_name, events, lastq>>

\* collect_results(name) up to its first lookup
CollectResults(name) ==
    /\ pc = "idle"
    /\ events < MaxEvents
    /\ events' = events + 1
    /\ collect_name' = name
    /\ current_name' = name
    /\ cnames' = << >>
    /\ arecords' = << >>
    /\ aaaarecords' = << >>
    /\ full_response' = << >>
    /\ Becomes(Call(CACHE, stack, name, "CNAME"))
    /\ pc' = "CNAME"
    /\ UNCHANGED lastq

\* one turn of the while loop of the chain walk, up to the next lookup
WalkChain ==
    /\ pc = "CNAME"
    /\ stack = << >>
    /\ ret # << >>
    /\ LET aliases == AliasRdatas(ret[1])
       IN IF Len(aliases) > 0
          THEN /\ Len(cnames) < MaxChain
               /\ cnames' = Append(cnames, AliasStep(current_name, aliases[1]))
               /\ current_name' = aliases[1].target
               /\ Becomes(Call(CACHE, stack, aliases[1].target, "CNAME"))
               /\ pc' = "CNAME"
          ELSE /\ Becomes(Call(CACHE, stack, current_name, "A"))
               /\ pc' = "A"
               /\ UNCHANGED <<current_name, cnames>>
    /\ UNCHANGED <<arecords, aaaarecords, full_response, collect_name, events, lastq>>

\* the A list, up to the AAAA lookup
CollectA ==
    /\ pc = "A"
    /\ stack = << >>
    /\ ret # << >>
    /\ arecords' = Records(ret[1].answer, "A")
    /\ Becomes(Call(CACHE, stack, current_name, "AAAA"))
    /\ pc' = "AAAA"
    /\ UNCHANGED <<current_name, cnames, aaaarecords, full_response, collect_name,
                   events, lastq>>

\* the AAAA list, up to the MX lookup
CollectAAAA ==
    /\ pc = "AAAA"
    /\ stack = << >>
    /\ ret # << >>
    /\ aaaarecords' = Records(ret[1].answer, "AAAA")
    /\ Becomes(Call(CACHE, stack, current_name, "MX"))
    /\ pc' = "MX"
    /\ UNCHANGED <<current_name, cnames, arecords, full_response, collect_name,
                   events, lastq>>

\* the MX list and the return of full_response
CollectMX ==
    /\ pc = "MX"
    /\ stack = << >>
    /\ ret # << >>
    /\ full_response' = <<[CNAME |-> cnames, A |-> arecords, AAAA |-> aaaarecords,
                           MX |-> Records(ret[1].answer, "MX")]>>
    /\ pc' = "idle"
    /\ ret' = << >>
    /\ UNCHANGED <<CACHE, stack, current_name, cnames, arecords, aaaarecords,
                   collect_name, events, lastq, returned>>

Next ==
    \/ \E call \in LookupCalls : Lookup(call[1], call[2])
    \/ LookupReturns
    \/ QueryFails
    \/ QueryAnswered
    \/ NsAddressReturns
    \/ \E name \in HostNames : CollectResults(name)
    \/ WalkChain
    \/ CollectA
    \/ CollectAAAA
    \/ CollectMX

Spec == Init /\ [][Next]_vars

----------------------------------------------------------------------------
(* The same program in front of well-formed data.  The root servers refer  *)
(* to z., which is closer to every name asked for than the root; the server *)
(* of z. never refers.  a.z. is an alias of b.z. and b.z. of n.z., which is *)
(* an alias of nothing and has the records.  A referral for a nameserver's  *)
(* own name carries its glue, so that no address lookup needs itself.  A    *)
(* reply is not counted here: a call may receive any number of them.  The   *)
(* user calls lookup, or collect_results for the head a.z. of the chain.    *)

\* what the nameserver ns replies to the query (qname, qtype)
WellFormedData(ns, qname, qtype) ==
    IF \E k \in 1..Len(ROOT_SERVERS) : ROOT_SERVERS[k] = ns
    THEN IF ns = ROOT_SERVERS[1] \/ qname \in {HostB, HostN}
         THEN Message(qname, qtype, <<>>,
                      <<RRset(ZoneZ, "NS", <<NSRdata(HostN)>>)>>,
                      <<RRset(HostN, "A", <<ARdata(GlueAddress)>>)>>)
         ELSE Message(qname, qtype, <<>>,
                      <<RRset(ZoneZ, "NS", <<NSRdata(HostB), NSRdata(HostN)>>)>>,
                      <<>>)
    ELSE IF qname \in {HostA, HostB}
         THEN Message(qname, qtype,
                      <<RRset(qname, "CNAME", <<CNAMERdata(AliasOf(qname))>>)>>,
                      <<>>, <<>>)
         ELSE IF qtype = "CNAME"
              THEN Message(qname, qtype, <<>>,
                           <<RRset(ZoneZ, "SOA", <<SOARdata>>)>>, <<>>)
              ELSE CHOOSE response \in DirectAnswers(qname, qtype) : TRUE

\* dns.query.udp returns the reply of the well-formed data
AnsweredWellFormed ==
    /\ stack # << >>
    /\ ret = << >>
    /\ Top(stack).j = 0
    /\ LET f == Top(stack)
           response == WellFormedData(f.nameservers[f.i], f.current_target, f.qtype)
       IN /\ response \in WireResponses(f.current_target, f.qtype)
          /\ lastq' = <<Query(f, <<response>>)>>
          /\ Becomes(OnResponse(CACHE, stack, response))
    /\ UNCHANGED <<pc, current_name, cnames, arecords, aaaarecords, full_response,
                   collect_name, events>>

\* the steps the program takes by itself
Proceeds ==
    \/ LookupReturns
    \/ NsAddressReturns
    \/ WalkChain
    \/ CollectA
    \/ CollectAAAA
    \/ CollectMX

\* one attempt: dns.query.udp returns or raises within its timeout
Attempt == QueryFails \/ AnsweredWellFormed

NextWellFormed ==
    \/ \E call \in LookupCalls : events < MaxCalls /\ Lookup(call[1], call[2])
    \/ events < MaxCalls /\ CollectResults(HostA)
    \/ QueryFails
    \/ AnsweredWellFormed
    \/ LookupReturns
    \/ NsAddressReturns
    \/ WalkChain
    \/ CollectA
    \/ CollectAAAA
    \/ CollectMX

\* the program goes on while it can, and every attempt ends
WellFormedSpec ==
    /\ Init
    /\ [][NextWellFormed]_vars
    /\ WF_vars(Proceeds)
    /\ WF_vars(Attempt)

----------------------------------------------------------------------------
TypeOK ==
    /\ pc \in {"idle", "lookup", "CNAME", "A", "AAAA", "MX"}
    /\ events \in 0..MaxEvents
    /\ Len(ret) <= 1
    /\ \A k \in 1..Len(stack) : stack[k].i \in 1..Len(stack[k].nameservers)
    /\ (stack # << >> /\ ret # << >>) => Top(stack).j > 0
    /\ (stack # << >> /\ ret = << >>) => Top(stack).j = 0

----------------------------------------------------------------------------
(* Properties                                                              *)

RootHints == {ROOT_SERVERS[k] : k \in 1..Len(ROOT_SERVERS)}

\* a step in which the innermost call's attempt failed in transport
IsTransportFailure == stack # << >> /\ ret = << >> /\ events' = events

\* a step in which the innermost call received a reply
IsReply == stack # << >> /\ events' = events + 1

\* C1: a cache key, once written, is never given a different value, at any of
\* the write sites of lookup.
FirstWriterWins ==
    [][\A key \in DOMAIN CACHE :
          key \in DOMAIN CACHE' /\ CACHE'[key] = CACHE[key]]_vars

\* C2: the message a lookup has returned for a key is the one the cache holds
\* for that key from then on, so that every later lookup of the key returns it.
ReturnedValueIsServed ==
    \A key \in DOMAIN returned :
        key \in DOMAIN CACHE /\ CACHE[key] = returned[key]

\* C3: every active call of lookup has a non-empty nameserver list whenever it
\* starts a cycle (and at every other moment).
NameserversNeverEmpty ==
    \A k \in 1..Len(stack) : Len(stack[k].nameservers) > 0

\* a call starts a cycle with the glue addresses of the referral it just got
CycleAfterReferral ==
    /\ stack # << >>
    /\ lastq # << >>
    /\ lastq[1].reply # << >>
    /\ Len(NsTargets(lastq[1].reply[1].authority)) > 0
    /\ lastq[1].target_name = Top(stack).target_name
    /\ Top(stack).i = 1
    /\ Top(stack).nameservers = GlueAddresses(lastq[1].reply[1].additional)

\* C4: when the last nameserver of a cycle fails in transport after all the
\* others did, the call returns the empty response and stores it under the key
\* it was called with; a transport failure ends the call only at the last
\* nameserver of the list.
ExhaustionFallback ==
    [][IsTransportFailure =>
         LET f == Top(stack)
             empty == make_response(f.current_target, f.qtype)
             cache_key == CacheKey(f.target_name, f.qtype)
         IN /\ (f.failed + 1 = Len(f.nameservers)) =>
                  /\ stack' = Pop(stack)
                  /\ ret' = <<empty>>
                  /\ Len(empty.answer) = 0
                  /\ cache_key \in DOMAIN CACHE'
                  /\ CACHE'[cache_key] = empty
            /\ (Len(stack') < Len(stack)) => f.i = Len(f.nameservers)]_vars

\* no reply was ever received: both root servers failed and the empty response
\* is returned and stored
ExhaustedAtRoot ==
    /\ events = 1
    /\ lastq # << >>
    /\ lastq[1].ns = ROOT_SERVERS[Len(ROOT_SERVERS)]
    /\ ret = <<make_response(lastq[1].name, lastq[1].rdtype)>>
    /\ CacheKey(lastq[1].target_name, lastq[1].rdtype) \in DOMAIN CACHE
    /\ CACHE[CacheKey(lastq[1].target_name, lastq[1].rdtype)] = ret[1]

\* the suffixes of a name whose cached NS set has a target with a cached address
UsableAncestors(cache, name) ==
    {i \in 1..Len(name) :
        LET ns_cache_key == CacheKey(SubSeq(name, i, Len(name)), "NS")
        IN /\ ns_cache_key \in DOMAIN cache
           /\ \E k \in 1..Len(NsTargets(cache[ns_cache_key].answer)) :
                LET ns_ip_key == CacheKey(NsTargets(cache[ns_cache_key].answer)[k], "A")
                IN /\ ns_ip_key \in DOMAIN cache
                   /\ Len(AAddresses(cache[ns_ip_key].answer)) > 0}

\* the cached addresses of the NS targets of the suffix of name that starts at i
AddressesAt(cache, name, i) ==
    CachedAddresses(cache,
        NsTargets(cache[CacheKey(SubSeq(name, i, Len(name)), "NS")].answer))

\* the most specific usable ancestor is the longest suffix
MostSpecific(indices) == CHOOSE i \in indices : \A m \in indices : i <= m

\* C5 as stated: a lookup that began after a lookup of another name under a
\* zone above its name had returned an answer sends no query to a root server.
NoRootAfterSuccess ==
    lastq # << >> => (lastq[1].under => lastq[1].ns \notin RootHints)

\* C5 as amended: such a lookup starts with the cached addresses of the most
\* specific ancestor that has any, and at the root servers when none has.
NarrowedStart ==
    [][Len(stack') = Len(stack) + 1 =>
         LET f == Top(stack')
             usable == UsableAncestors(CACHE', f.target_name)
         IN f.under =>
              /\ usable # {} =>
                   f.nameservers = AddressesAt(CACHE', f.target_name, MostSpecific(usable))
              /\ usable = {} => f.nameservers = ROOT_SERVERS]_vars

\* such a lookup has just begun (the last query was sent by an earlier call) and
\* its nameserver list is the cached glue address
NarrowedLookupBegins ==
    /\ Len(stack) = 1
    /\ Top(stack).under
    /\ Top(stack).i = 1
    /\ Top(stack).failed = 0
    /\ lastq # << >>
    /\ <<lastq[1].target_name, lastq[1].rdtype>>
          # <<Top(stack).target_name, Top(stack).qtype>>
    /\ Top(stack).nameservers = <<GlueAddress>>

\* C6: a lookup of type CNAME asks for the name it was called with in every
\* query, and the first reply with a non-empty answer ends it: with the reply
\* if the answer has a CNAME record set, with the empty response otherwise.
CnameLookupIsTerminal ==
    [][/\ \A k \in 1..Len(stack') :
             stack'[k].qtype = "CNAME" => stack'[k].current_target = stack'[k].target_name
       /\ (lastq' # << >> /\ lastq'[1].rdtype = "CNAME") =>
             lastq'[1].name = lastq'[1].target_name
       /\ (IsReply /\ Top(stack).qtype = "CNAME"
             /\ Len(lastq'[1].reply[1].answer) > 0) =>
             LET f == Top(stack)
                 reply == lastq'[1].reply[1]
                 result == IF Len(OfType(reply.answer, "CNAME")) > 0
                           THEN reply
                           ELSE make_response(f.target_name, "CNAME")
                 cache_key == CacheKey(f.target_name, "CNAME")
             IN /\ stack' = Pop(stack)
                /\ ret' = <<result>>
                /\ cache_key \in DOMAIN CACHE'
                /\ CACHE'[cache_key] = result]_vars

\* a lookup of type CNAME got an answer without a CNAME record and returned
\* the empty response
CnameLookupGotOtherAnswer ==
    /\ lastq # << >>
    /\ lastq[1].rdtype = "CNAME"
    /\ lastq[1].reply # << >>
    /\ Len(lastq[1].reply[1].answer) > 0
    /\ Len(OfType(lastq[1].reply[1].answer, "CNAME")) = 0
    /\ ret = <<make_response(lastq[1].target_name, "CNAME")>>

\* C7: the alias steps of collect_results are in chain order: the first step's
\* alias is the name it was called with, each later step's alias is the step
\* before's target, every step is the first CNAME record of the lookup of its
\* alias, and the terminal name (the last target, or the name itself when
\* there is no step) is a name whose CNAME lookup returned no CNAME record.
ChainWalkResult ==
    /\ \A k \in 1..Len(cnames) :
          /\ cnames[k].alias = (IF k = 1 THEN collect_name ELSE cnames[k - 1].name)
          /\ CacheKey(cnames[k].alias, "CNAME") \in DOMAIN CACHE
          /\ LET aliases == AliasRdatas(CACHE[CacheKey(cnames[k].alias, "CNAME")])
             IN Len(aliases) > 0 /\ aliases[1].target = cnames[k].name
    /\ current_name = (IF Len(cnames) = 0 THEN collect_name
                       ELSE cnames[Len(cnames)].name)
    /\ (pc \in {"A", "AAAA", "MX"} \/ full_response # << >>) =>
          /\ CacheKey(current_name, "CNAME") \in DOMAIN CACHE
          /\ Len(AliasRdatas(CACHE[CacheKey(current_name, "CNAME")])) = 0
    /\ full_response # << >> => full_response[1].CNAME = cnames

\* collect_results(a) has returned for the chain a -> b -> n
ChainOfTwoWalked ==
    /\ full_response # << >>
    /\ collect_name = HostA
    /\ full_response[1].CNAME = <<[name |-> HostB, alias |-> HostA],
                                  [name |-> HostN, alias |-> HostB]>>
    /\ current_name = HostN

\* C8: a referral with an A record in its additional section makes the call
\* start the next cycle with the glue addresses and no nested lookup; a reply
\* starts a nested lookup only if it is a referral without such a record.
GluePreferred ==
    [][IsReply =>
         LET reply == lastq'[1].reply[1]
             is_referral == Len(reply.answer) = 0
                            /\ Len(NsTargets(reply.authority)) > 0
             glue == OfType(reply.additional, "A")
             nested == \/ Len(stack') > Len(stack)
                       \/ (Len(stack') = Len(stack) /\ Top(stack').j > 0)
         IN /\ (is_referral /\ Len(glue) > 0) =>
                  /\ ~nested
                  /\ Len(stack') = Len(stack)
                  /\ ret' = << >>
                  /\ Top(stack').i = 1
                  /\ Top(stack').nameservers =
                        [k \in 1..Len(glue) |-> glue[k].items[1].address]
            /\ nested => (is_referral /\ Len(glue) = 0)]_vars

\* the call goes on with the glue address of a referral; the glue here is
\* owned by a name that is not among the NS targets
GlueUsedDirectly ==
    /\ Len(stack) = 1
    /\ lastq # << >>
    /\ lastq[1].reply # << >>
    /\ Len(NsTargets(lastq[1].reply[1].authority)) > 0
    /\ Len(OfType(lastq[1].reply[1].additional, "A")) > 0
    /\ Top(stack).j = 0
    /\ Top(stack).i = 1
    /\ Top(stack).nameservers = <<"g2">>
    /\ lastq[1].reply[1].additional[1].name = HostA

\* C9: a call that is not served from the cache starts with the cached
\* addresses of the NS targets of the most specific ancestor of its name that
\* has a cached NS set with a cached address, and with the root servers exactly
\* when no ancestor has one; a call made by the user neither sends a query nor
\* changes the cache before its first attempt.
LocatorChoosesClosest ==
    [][/\ Len(stack') = Len(stack) + 1 =>
            LET f == Top(stack')
                usable == UsableAncestors(CACHE', f.target_name)
            IN /\ f.current_target = f.target_name
               /\ f.i = 1
               /\ usable # {} =>
                    f.nameservers = AddressesAt(CACHE', f.target_name,
                                                MostSpecific(usable))
               /\ usable = {} => f.nameservers = ROOT_SERVERS
       /\ (pc = "idle" /\ pc' # "idle") => (CACHE' = CACHE /\ lastq' = lastq)]_vars

\* a call has just begun for a name with two usable ancestors whose address
\* lists differ, and it has the list of the closer one
CloserOfTwoChosen ==
    /\ Len(stack) = 1
    /\ Top(stack).i = 1
    /\ Top(stack).failed = 0
    /\ lastq # << >>
    /\ <<lastq[1].target_name, lastq[1].rdtype>>
          # <<Top(stack).target_name, Top(stack).qtype>>
    /\ LET name == Top(stack).target_name
           usable == UsableAncestors(CACHE, name)
       IN /\ Cardinality(usable) = 2
          /\ \E i \in usable, m \in usable :
                /\ i < m
                /\ AddressesAt(CACHE, name, i) # AddressesAt(CACHE, name, m)
                /\ Top(stack).nameservers = AddressesAt(CACHE, name, i)

\* the rdatas of one type in a section, with their owner names
TypedRdatas(section, rdtype) ==
    SelectSeq(Flatten([k \in 1..Len(section) |->
                         [m \in 1..Len(section[k].items) |->
                            [name |-> section[k].name, rdata |-> section[k].items[m]]]]),
              LAMBDA e : e.rdata.rdtype = rdtype)

\* the list holds, in order, exactly the records of the type in the answer
\* section of the message cached for (name, rdtype)
ListMatchesAnswer(cache, list, name, rdtype) ==
    /\ CacheKey(name, rdtype) \in DOMAIN cache
    /\ LET typed == TypedRdatas(cache[CacheKey(name, rdtype)].answer, rdtype)
       IN /\ Len(list) = Len(typed)
          /\ \A k \in 1..Len(list) :
                /\ list[k].name = typed[k].name
                /\ IF rdtype = "MX"
                   THEN /\ list[k].preference = typed[k].rdata.preference
                        /\ list[k].exchange = ToText(typed[k].rdata.exchange)
                   ELSE list[k].address = typed[k].rdata.address

AggregatorOrder ==
    {<<"idle", "lookup">>, <<"lookup", "idle">>, <<"idle", "CNAME">>,
     <<"CNAME", "A">>, <<"A", "AAAA">>, <<"AAAA", "MX">>, <<"MX", "idle">>}

\* C10: collect_results walks the chain, then looks up A, AAAA and MX in this
\* order and for the terminal name of the chain; what it returns has the four
\* keys, and each of the A, AAAA and MX lists holds exactly the records of its
\* type in the answer section of the lookup made for it.
AggregatorShape ==
    [][/\ pc' # pc => <<pc, pc'>> \in AggregatorOrder
       /\ (pc' \in {"A", "AAAA", "MX"} /\ stack' # << >>) =>
             /\ stack'[1].target_name = current_name'
             /\ stack'[1].qtype = pc'
             /\ current_name' = (IF Len(cnames') = 0 THEN collect_name'
                                 ELSE cnames'[Len(cnames')].name)
       /\ full_response' # << >> =>
             LET r == full_response'[1]
             IN /\ DOMAIN r = {"CNAME", "A", "AAAA", "MX"}
                /\ \A rdtype \in {"A", "AAAA", "MX"} :
                      ListMatchesAnswer(CACHE', r[rdtype], current_name', rdtype)]_vars

\* collect_results has returned an alias step and an address
AliasAndAddressCollected ==
    /\ full_response # << >>
    /\ Len(full_response[1].CNAME) > 0
    /\ Len(full_response[1].A) > 0
    /\ full_response[1].A[1].name = current_name

\* C11: a reply with an empty answer section and no NS record in its authority
\* section (the authority section may be empty altogether) ends the call: the
\* reply is stored as it is under the key the call was made with and returned,
\* and no further nameserver is queried.
NoReferralIsTerminal ==
    [][IsReply =>
         LET f == Top(stack)
             reply == lastq'[1].reply[1]
             cache_key == CacheKey(f.target_name, f.qtype)
         IN (Len(reply.answer) = 0 /\ Len(NsTargets(reply.authority)) = 0) =>
               /\ stack' = Pop(stack)
               /\ ret' = <<reply>>
               /\ cache_key \in DOMAIN CACHE'
               /\ CACHE'[cache_key] = reply]_vars

\* C12: in a call of a type other than CNAME, a reply whose answer section has
\* a CNAME record set makes the call ask for that record's target, of the same
\* type, from the first of the root servers on, with the cache untouched; a
\* reply with a non-empty answer and no CNAME record set is stored under the
\* key the call was made with, whatever name is asked for by now, and returned.
ImplicitAliasFollowing ==
    [][(IsReply /\ Top(stack).qtype # "CNAME"
          /\ Len(lastq'[1].reply[1].answer) > 0) =>
         LET f == Top(stack)
             reply == lastq'[1].reply[1]
             aliases == OfType(reply.answer, "CNAME")
             cache_key == CacheKey(f.target_name, f.qtype)
         IN IF Len(aliases) > 0
            THEN /\ Len(stack') = Len(stack)
                 /\ Pop(stack') = Pop(stack)
                 /\ Top(stack').target_name = f.target_name
                 /\ Top(stack').qtype = f.qtype
                 /\ Top(stack').current_target = aliases[1].items[1].target
                 /\ Top(stack').nameservers = ROOT_SERVERS
                 /\ Top(stack').i = 1
                 /\ Top(stack').j = 0
                 /\ ret' = << >>
                 /\ CACHE' = CACHE
            ELSE /\ stack' = Pop(stack)
                 /\ ret' = <<reply>>
                 /\ cache_key \in DOMAIN CACHE'
                 /\ CACHE'[cache_key] = reply]_vars

\* a call followed an alias, asked a root server for the target and got an
\* answer, which is stored under the key of the call and returned
AliasAnswerStored ==
    /\ lastq # << >>
    /\ lastq[1].name # lastq[1].target_name
    /\ lastq[1].ns \in RootHints
    /\ lastq[1].reply # << >>
    /\ ret = lastq[1].reply
    /\ Len(OfType(ret[1].answer, lastq[1].rdtype)) > 0
    /\ CacheKey(lastq[1].target_name, lastq[1].rdtype) \in DOMAIN CACHE
    /\ CACHE[CacheKey(lastq[1].target_name, lastq[1].rdtype)] = ret[1]

\* a reply that decides the cycle by itself: an answer, a referral with an A
\* record in its additional section, or an authority section without NS records
IsClassifiable(reply) ==
    \/ Len(reply.answer) > 0
    \/ /\ Len(NsTargets(reply.authority)) > 0
       /\ Len(OfType(reply.additional, "A")) > 0
    \/ /\ Len(reply.authority) > 0
       /\ Len(NsTargets(reply.authority)) = 0

\* C13: every attempt of a call goes to the nameserver at the position of the
\* call in its list; the position moves forward by one or the call starts a new
\* cycle, waits for the address of an NS target or returns, so that no
\* nameserver is tried twice in a cycle.  A transport failure moves the call to
\* the next nameserver of the same list with the cache as it was and, at the
\* last nameserver, makes the call return a message.  A classifiable reply
\* ends the cycle: the call returns or starts a new cycle, and it does not go
\* on to the nameservers after the one that replied.
AttemptOrder ==
    [][stack # << >> =>
         LET f == Top(stack)
             same_call == Len(stack') = Len(stack)
             g == Top(stack')
             advanced == /\ same_call
                         /\ g.i = f.i + 1
                         /\ g.j = 0
                         /\ g.nameservers = f.nameservers
                         /\ g.current_target = f.current_target
                         /\ ret' = << >>
             waiting == /\ Len(stack') >= Len(stack)
                        /\ stack'[Len(stack)].i = f.i
                        /\ stack'[Len(stack)].j > f.j
                        /\ stack'[Len(stack)].nameservers = f.nameservers
                        /\ stack'[Len(stack)].current_target = f.current_target
             new_cycle == /\ same_call
                          /\ g.i = 1
                          /\ g.j = 0
                          /\ g.failed = 0
                          /\ ret' = << >>
             returns == /\ stack' = Pop(stack)
                        /\ Len(ret') = 1
                        /\ ret'[1].question.rdtype = f.qtype
         IN /\ advanced \/ waiting \/ new_cycle \/ returns
            /\ (IsTransportFailure \/ IsReply) =>
                  /\ f.j = 0
                  /\ lastq'[1].ns = f.nameservers[f.i]
                  /\ lastq'[1].name = f.current_target
            /\ IsTransportFailure =>
                  IF f.i < Len(f.nameservers)
                  THEN advanced /\ CACHE' = CACHE
                  ELSE returns
            /\ IsReply =>
                  LET reply == lastq'[1].reply[1]
                  IN /\ IsClassifiable(reply) => (new_cycle \/ returns)
                     /\ new_cycle => IsClassifiable(reply)]_vars

\* the first root server failed in transport, the second one answered, and the
\* call returned that answer
SecondNameserverDecides ==
    /\ events = 2
    /\ stack = << >>
    /\ lastq # << >>
    /\ lastq[1].ns = ROOT_SERVERS[2]
    /\ lastq[1].reply # << >>
    /\ Len(lastq[1].reply[1].answer) > 0
    /\ ret = lastq[1].reply

\* the A record sets of a referral's additional section that are owned by one
\* of the NS targets of its authority section
MatchingGlue(reply) ==
    LET ns_names == NsTargets(reply.authority)
    IN SelectSeq(OfType(reply.additional, "A"),
                 LAMBDA rr : \E k \in 1..Len(ns_names) : ns_names[k] = rr.name)

\* C14: after a referral the nameserver list of the call holds only addresses
\* of additional-section A records owned by an NS target of the referral, and
\* every such record is cached under (owner name, A); an A record of the
\* additional section owned by another name gives no nameserver.
GlueOnlyOfNsTargets ==
    [][IsReply =>
         LET reply == lastq'[1].reply[1]
             is_referral == Len(reply.answer) = 0
                            /\ Len(NsTargets(reply.authority)) > 0
             glue == MatchingGlue(reply)
         IN (is_referral /\ Len(OfType(reply.additional, "A")) > 0) =>
               /\ \A k \in 1..Len(glue) :
                     CacheKey(glue[k].name, "A") \in DOMAIN CACHE'
               /\ Len(stack') = Len(stack) =>
                     \A m \in 1..Len(Top(stack').nameservers) :
                         \E k \in 1..Len(glue) : \E n \in 1..Len(glue[k].items) :
                             glue[k].items[n].address = Top(stack').nameservers[m]]_vars

\* the call at depth d of the stack has begun lookup(ns_names[j], A) and waits
\* for it: the message comes from the cache, or a new call is on top
NestedLookupStarted(d, ns_names, j) ==
    LET ns_ip_key == CacheKey(ns_names[j], "A")
    IN /\ Len(stack') >= d
       /\ stack'[d] = [stack[d] EXCEPT !.ns_names = ns_names, !.j = j]
       /\ IF ns_ip_key \in DOMAIN CACHE'
          THEN /\ Len(stack') = d
               /\ ret' = <<CACHE'[ns_ip_key]>>
          ELSE /\ Len(stack') = d + 1
               /\ ret' = << >>
               /\ Top(stack').target_name = ns_names[j]
               /\ Top(stack').current_target = ns_names[j]
               /\ Top(stack').qtype = "A"
               /\ Top(stack').i = 1
               /\ Top(stack').nameservers = InitialNameservers(CACHE', ns_names[j])

\* C15: a referral without an A record in its additional section makes the
\* call look up the A addresses of the NS targets one after the other, in the
\* order of the authority section, beginning after the NS set is in the cache
\* under the zone's name (stored from this referral when the key was absent).
\* The first target whose lookup returns an A record ends this: the call starts
\* a new cycle for the same name and type with exactly the addresses of that
\* message, and the targets after it are not looked up.
GluelessDelegation ==
    [][/\ IsReply =>
            LET f == Top(stack)
                reply == lastq'[1].reply[1]
                ns_names == NsTargets(reply.authority)
                zone_cache_key == CacheKey(reply.authority[1].name, "NS")
            IN (/\ Len(reply.answer) = 0
                /\ Len(ns_names) > 0
                /\ Len(OfType(reply.additional, "A")) = 0) =>
                  /\ zone_cache_key \in DOMAIN CACHE'
                  /\ zone_cache_key \notin DOMAIN CACHE =>
                        CACHE'[zone_cache_key].answer = reply.authority
                  /\ NestedLookupStarted(Len(stack), ns_names, 1)
       /\ (stack # << >> /\ ret # << >>) =>
            LET f == Top(stack)
                new_nameservers == AAddresses(ret[1].answer)
            IN /\ f.j > 0
               /\ Len(new_nameservers) > 0 =>
                     /\ Len(stack') = Len(stack)
                     /\ Pop(stack') = Pop(stack)
                     /\ Top(stack').nameservers = new_nameservers
                     /\ Top(stack').i = 1
                     /\ Top(stack').j = 0
                     /\ Top(stack').current_target = f.current_target
                     /\ Top(stack').target_name = f.target_name
                     /\ Top(stack').qtype = f.qtype
                     /\ ret' = << >>
                     /\ CACHE' = CACHE
               /\ (Len(new_nameservers) = 0 /\ f.j < Len(f.ns_names)) =>
                     /\ NestedLookupStarted(Len(stack), f.ns_names, f.j + 1)
                     /\ CACHE' = CACHE]_vars

\* the lookup of the first NS target returned no address, the lookup of the
\* second one returned one, and the call goes on with that address
SecondTargetResolved ==
    /\ Len(stack) = 1
    /\ Top(stack).target_name \notin {HostB, HostN}
    /\ Top(stack).nameservers = <<GlueAddress>>
    /\ Top(stack).i = 1
    /\ Top(stack).j = 0
    /\ ret = << >>
    /\ lastq # << >>
    /\ lastq[1].target_name = HostN
    /\ lastq[1].reply # << >>
    /\ AAddresses(lastq[1].reply[1].answer) = <<GlueAddress>>
    /\ CacheKey(ZoneZ, "NS") \in DOMAIN CACHE
    /\ NsTargets(CACHE[CacheKey(ZoneZ, "NS")].answer) = <<HostB, HostN>>
    /\ CacheKey(HostB, "A") \in DOMAIN CACHE
    /\ Len(AAddresses(CACHE[CacheKey(HostB, "A")].answer)) = 0

\* C16: when the lookup of the last NS target of a referral without glue has
\* returned and no target gave an address, the call returns the empty response
\* or starts a new cycle at the first of the root servers; it does not go on to
\* the next nameserver of the list whose member sent the referral.
NarrowingFailure ==
    [][(stack # << >> /\ ret # << >>) =>
         LET f == Top(stack)
         IN (/\ Len(AAddresses(ret[1].answer)) = 0
             /\ f.j = Len(f.ns_names)) =>
               \/ /\ stack' = Pop(stack)
                  /\ ret' = <<make_response(f.current_target, f.qtype)>>
               \/ /\ Len(stack') = Len(stack)
                  /\ Top(stack').nameservers = ROOT_SERVERS
                  /\ Top(stack').i = 1
                  /\ Top(stack').j = 0]_vars

\* following the cached CNAME entries from name leads back to start within n steps
RECURSIVE OnCachedCycle(_, _, _, _)
OnCachedCycle(cache, start, name, n) ==
    LET cache_key == CacheKey(name, "CNAME")
        aliases == IF cache_key \in DOMAIN cache
                   THEN AliasRdatas(cache[cache_key])
                   ELSE << >>
    IN /\ Len(aliases) > 0
       /\ \/ aliases[1].target = start
          \/ n > 1 /\ OnCachedCycle(cache, start, aliases[1].target, n - 1)

CachedCycle(cache, name) == OnCachedCycle(cache, name, name, Cardinality(AllNames))

\* C17: nothing bounds the cycles of a call or the steps of the chain walk.
\* A referral with glue always starts a new cycle on the glue addresses; when
\* it names a zone the call has visited, with the addresses the call is using,
\* the call is in the state it was in at the start of the cycle before, with
\* the cache as it was, so that the same referral can follow for ever.  When
\* the chain walk has been returned an alias whose target lies on a cycle of
\* cached aliases, its next step is served from the cache, sends no query,
\* adds a step and leaves it in the walk, at a name on the cycle again.
NoLoopBound ==
    [][/\ IsReply =>
            LET f == Top(stack)
                reply == lastq'[1].reply[1]
                new_nameservers == GlueAddresses(reply.additional)
            IN (/\ Len(reply.answer) = 0
                /\ Len(NsTargets(reply.authority)) > 0
                /\ Len(new_nameservers) > 0) =>
                  /\ Len(stack') = Len(stack)
                  /\ ret' = << >>
                  /\ Top(stack').nameservers = new_nameservers
                  /\ Top(stack').i = 1
                  /\ Top(stack').current_target = f.current_target
                  /\ (/\ f.nameservers = new_nameservers
                      /\ f.i = 1
                      /\ f.failed = 0
                      /\ CacheKey(reply.authority[1].name, "NS") \in DOMAIN CACHE
                      /\ \A k \in 1..Len(reply.additional) :
                            CacheKey(reply.additional[k].name, "A") \in DOMAIN CACHE) =>
                        /\ stack' = stack
                        /\ CACHE' = CACHE
       /\ (/\ pc = "CNAME"
           /\ stack = << >>
           /\ ret # << >>
           /\ Len(AliasRdatas(ret[1])) > 0
           /\ CachedCycle(CACHE, AliasRdatas(ret[1])[1].target)) =>
             /\ pc' = "CNAME"
             /\ stack' = << >>
             /\ CACHE' = CACHE
             /\ lastq' = lastq
             /\ events' = events
             /\ Len(cnames') = Len(cnames) + 1
             /\ ret' # << >>
             /\ Len(AliasRdatas(ret'[1])) > 0
             /\ CachedCycle(CACHE', AliasRdatas(ret'[1])[1].target)]_vars

\* the chain walk is on the cycle of b.z. and n.z. for the second time: its
\* last step repeats its first one and the next alias is there already
AliasWalkRepeats ==
    /\ pc = "CNAME"
    /\ stack = << >>
    /\ ret # << >>
    /\ Len(cnames) >= 3
    /\ cnames[3] = cnames[1]
    /\ Len(AliasRdatas(ret[1])) > 0
    /\ CachedCycle(CACHE, current_name)

\* C18: no step removes a key from the cache.
CacheNeverShrinks ==
    [][DOMAIN CACHE \subseteq DOMAIN CACHE']_vars

\* collect_results and a lookup have returned and all their keys are cached
CacheGrewAcrossCalls ==
    /\ pc = "idle"
    /\ full_response # << >>
    /\ Cardinality(DOMAIN CACHE) >= 5
    /\ Cardinality(DOMAIN returned) >= 5

\* the keys a step adds to the cache or gives another value
WrittenKeys ==
    {key \in DOMAIN CACHE' : key \notin DOMAIN CACHE \/ CACHE'[key] # CACHE[key]}

\* the key a call of lookup was made for, and the key of the name it asks for
\* now (another one once the call has followed an alias)
OwnKey(f) == CacheKey(f.target_name, f.qtype)
AliasTargetKey(f) == CacheKey(f.current_target, f.qtype)

\* the keys of a referral: (zone, NS) for the owner of its first authority
\* record set and (owner, A) for each of the given additional record sets;
\* no key for a reply that is not a referral
ReferralKeys(reply, records) ==
    IF Len(reply.answer) = 0 /\ Len(NsTargets(reply.authority)) > 0
    THEN {CacheKey(reply.authority[1].name, "NS")}
            \cup {CacheKey(records[k].name, "A") : k \in 1..Len(records)}
    ELSE {}

\* the keys of the referral the innermost call receives in this step, with
\* glue records only, and with every A record set of the additional section
GlueKeysReceived ==
    IF IsReply THEN ReferralKeys(lastq'[1].reply[1], MatchingGlue(lastq'[1].reply[1]))
    ELSE {}
AdditionalKeysReceived ==
    IF IsReply
    THEN ReferralKeys(lastq'[1].reply[1], OfType(lastq'[1].reply[1].additional, "A"))
    ELSE {}

\* C20 as stated: a step writes the cache only while a call of lookup is
\* active, and only at the key of the innermost call (for the calls below it
\* on the stack these are writes of their nested lookups), at the (zone, NS)
\* key of a referral just received and at the (owner, A) keys of its glue
\* records, the additional A records owned by its NS targets; and no step
\* writes the key (alias target, type) of an active call that followed an
\* alias.
FootprintSparesAliasTarget ==
    [][/\ \A key \in WrittenKeys :
             /\ stack # << >>
             /\ key \in {OwnKey(Top(stack))} \cup GlueKeysReceived
       /\ \A i \in 1..Len(stack) :
             stack[i].current_target # stack[i].target_name =>
                AliasTargetKey(stack[i]) \notin WrittenKeys]_vars

\* C20 as amended: a step writes the cache only while a call of lookup is
\* active, and only at the key of the innermost call (for the calls below it
\* on the stack these are writes of their nested lookups), at the (zone, NS)
\* key of a referral just received and at the (owner, A) keys of the A record
\* sets of its additional section, whoever owns them.  The key (alias target,
\* type) of an active call that followed an alias is written only as a key
\* of the referral just received or as the own key of a lookup nested in
\* that call; the steps that take an answer, fail in transport or return the
\* call that followed the alias leave it alone.
WriteFootprint ==
    [][/\ \A key \in WrittenKeys :
             /\ stack # << >>
             /\ key \in {OwnKey(Top(stack))} \cup AdditionalKeysReceived
       /\ \A i \in 1..Len(stack) :
             (/\ stack[i].current_target # stack[i].target_name
              /\ AliasTargetKey(stack[i]) \in WrittenKeys) =>
                \/ AliasTargetKey(stack[i]) \in AdditionalKeysReceived
                \/ /\ i < Len(stack)
                   /\ AliasTargetKey(stack[i]) = OwnKey(Top(stack))]_vars

\* the entry of (a.z., A) holds records owned by the alias target b.z., and
\* there is no entry for (b.z., A)
AnswerOwnedByAliasTarget ==
    /\ ret # << >>
    /\ CacheKey(HostA, "A") \in DOMAIN CACHE
    /\ CACHE[CacheKey(HostA, "A")] = ret[1]
    /\ Len(ret[1].answer) > 0
    /\ ret[1].answer[1].name = HostB
    /\ ret[1].answer[1].rdtype = "A"
    /\ CacheKey(HostB, "A") \notin DOMAIN CACHE

\* C19: in front of well-formed data, when every attempt ends and the program
\* goes on while it can, every call of lookup or collect_results made by the
\* user returns, with no call of lookup, nested ones included, left active.
EveryCallReturns ==
    (pc # "idle") ~> (pc = "idle" /\ stack = << >>)

\* collect_results has returned for the chain a -> b -> n with the address of
\* n, after the A lookup of the NS target b.z. of a referral without glue was
\* made and followed the alias of b.z.
ChainResolvedThroughNestedLookup ==
    /\ pc = "idle"
    /\ full_response # << >>
    /\ Len(full_response[1].CNAME) = 2
    /\ Len(full_response[1].A) = 1
    /\ full_response[1].A[1].name = HostN
    /\ CacheKey(ZoneZ, "NS") \in DOMAIN CACHE
    /\ NsTargets(CACHE[CacheKey(ZoneZ, "NS")].answer) = <<HostB, HostN>>
    /\ CacheKey(HostB, "A") \in DOMAIN CACHE
    /\ AAddresses(CACHE[CacheKey(HostB, "A")].answer) = <<GlueAddress>>

====
